---- MODULE Spec2Model ----
(***************************************************************************)
(* svitlo-watcher (src/src/main.cpp): an ESP32 sketch that keeps a WiFi    *)
(* link up, polls a fixed list of HTTPS endpoints in parallel FreeRTOS     *)
(* tasks and shows the result on a red (error) and a blue (healthy) LED.   *)
(*                                                                         *)
(* The model has one main task (setup() followed by loop() forever), one   *)
(* worker task per endpoint and poll cycle (sendGetRequestTask), and the   *)
(* environment (the WiFi link, the HTTP servers, the millisecond clock).   *)
(* Every step is one shared-memory access or one blocking call of the      *)
(* source.  The counters activeRequests and failedRequests are plain ints  *)
(* updated with ++ and -- outside any lock: each update is a read step     *)
(* followed by a write step.                                               *)
(***************************************************************************)
EXTENDS Integers, Sequences, FiniteSets, TLC

\* ------------------------------------------------------------ constants

NUM_ENDPOINTS == 2

POLL_INTERVAL_MS == 30000

CHECK_INTERVAL_MS == 1000

MAX_ATTEMPTS == 30

BLINK_TIMES == 3

HTTP_CODE_OK == 200

\* unsigned long is 32 bits wide on the ESP32.  A clock value is kept as
\* two 16-bit halves <<high, low>>, value high * 65536 + low, since 2^32 is
\* beyond the integers of the model checker.
Half == 65536

\* Values millis() is sampled at: enough for "not yet due", "due" and
\* "due across the wraparound" to occur for both timers.
Millis == {<<0, 0>>, <<0, POLL_INTERVAL_MS>>}

\* Values http.GET() returns: 200, other positive statuses, and the
\* HTTPClient error sentinels (refused, connection lost, read timeout).
HttpResults == {200, 204, 404, 500, 0, -1, -5, -11}

LoopTask == "loopTask"

NoTask == "none"

TaskName(i) == CASE i = 1 -> "HTTPTask_1"
                 [] i = 2 -> "HTTPTask_2"
                 [] i = 3 -> "HTTPTask_3"
                 [] OTHER -> "HTTPTask_n"

\* The longest API_ENDPOINTS list explored: the sketch is built with
\* NUM_ENDPOINTS entries, the list is meant to be edited.
MaxEndpoints == 3

Slots == 1..MaxEndpoints

\* ------------------------------------------------------------ state

VARIABLES
    wifiStatus,      \* WiFi.status(): "WL_CONNECTED" or "WL_DISCONNECTED"
    RED_LED,         \* level of RED_LED_PIN: "LOW" or "HIGH"
    BLUE_LED,        \* level of BLUE_LED_PIN
    ledMutex,        \* holder of ledMutex: NoTask, LoopTask or TaskName(i)
    activeRequests,
    failedRequests,
    numEndpoints,    \* length of API_ENDPOINTS
    lastPollTime,
    lastCheckTime,   \* static in checkWiFiConnection
    wasConnected,    \* static in checkWiFiConnection
    mainPc,          \* position of the main task
    cwRet,           \* caller connectToWiFi returns to
    peRet,           \* caller pollEndpoints returns to
    attempts,        \* local of connectToWiFi
    blinkI,          \* local i of blinkBlueLED
    spawnI,          \* local i of pollEndpoints' for loop
    statusPolls,     \* WiFi.status() calls made by the running connectToWiFi
    task,            \* slot -> worker task (pc, params, locals, history)
    \* history of the run, read by the properties only
    linkStayedUp,    \* the link has been up since the gate of this cycle
    lastCycle,       \* "none", or "ok"/"failed": the last completed cycle
    reported,        \* failedRequests as logged by the summary, -1 if none
    hist,            \* link states seen by the executed checks, compressed
    lostEdges,       \* "connection lost" lines logged in the window of hist
    reconEdges       \* "reconnected" lines logged in the window of hist

vars == <<wifiStatus, RED_LED, BLUE_LED, ledMutex, activeRequests,
          failedRequests, numEndpoints, lastPollTime, lastCheckTime,
          wasConnected, mainPc, cwRet, peRet, attempts, blinkI, spawnI,
          statusPolls, task, linkStayedUp, lastCycle, reported, hist, lostEdges, reconEdges>>

leds == <<RED_LED, BLUE_LED>>

tally == <<activeRequests, failedRequests>>

timers == <<lastPollTime, lastCheckTime>>

locals == <<cwRet, peRet, attempts, blinkI, spawnI, statusPolls>>

linkLog == <<wasConnected, hist, lostEdges, reconEdges>>

cycleLog == <<linkStayedUp, lastCycle, reported>>

Connected == wifiStatus = "WL_CONNECTED"

\* A worker task that does not exist (never created, or deleted).
NoWorker == [pc |-> "off", index |-> 0, tmp |-> 0, outcome |-> "none",
             spawns |-> 0, gets |-> 0, incs |-> 0, decs |-> 0]

\* The state setup() starts from, for a build whose API_ENDPOINTS has one
\* of the given lengths.
Boot(lengths) ==
    /\ wifiStatus = "WL_DISCONNECTED"
    /\ RED_LED = "LOW"
    /\ BLUE_LED = "LOW"
    /\ ledMutex = NoTask
    /\ activeRequests = 0
    /\ failedRequests = 0
    /\ numEndpoints \in lengths
    /\ lastPollTime = <<0, 0>>
    /\ lastCheckTime = <<0, 0>>
    /\ wasConnected = FALSE
    /\ mainPc = "cw_begin"
    /\ cwRet = "setup"
    /\ peRet = "setup"
    /\ attempts = 0
    /\ blinkI = 0
    /\ spawnI = 0
    /\ statusPolls = 0
    /\ task = [s \in Slots |-> NoWorker]
    /\ linkStayedUp = TRUE
    /\ lastCycle = "none"
    /\ reported = -1
    /\ hist = <<>>
    /\ lostEdges = 0
    /\ reconEdges = 0

Init == Boot(1..NUM_ENDPOINTS)

\* ------------------------------------------------------------ environment

\* The access point comes or goes; setAutoReconnect(true) lets the driver
\* rejoin on its own at any time.
LinkChange ==
    /\ wifiStatus' = IF Connected THEN "WL_DISCONNECTED" ELSE "WL_CONNECTED"
    /\ linkStayedUp' = IF mainPc \in {"pe_reset", "pe_spawn", "pe_wait", "pe_summary"}
                       THEN FALSE ELSE linkStayedUp
    /\ UNCHANGED <<leds, ledMutex, tally, numEndpoints, timers, mainPc, locals,
                   task, wasConnected, hist, lostEdges, reconEdges, lastCycle,
                   reported>>

\* ------------------------------------------------------------ timers

\* currentTime - last in unsigned 32-bit arithmetic (modulo 2^32), on halves:
\* the low halves are subtracted with a borrow out of the high halves.
Elapsed(cur, last) ==
    LET borrow == IF cur[2] < last[2] THEN 1 ELSE 0
    IN <<(cur[1] - last[1] - borrow) % Half, (cur[2] - last[2]) % Half>>

\* a >= interval, for an interval below 65536.
AtLeast(a, interval) == a[1] > 0 \/ a[2] >= interval

\* The clock a given time after t, modulo 2^32: the low halves are added
\* with a carry into the high halves.
ClockAfter(t, d) ==
    LET carry == IF t[2] + d[2] >= Half THEN 1 ELSE 0
    IN <<(t[1] + d[1] + carry) % Half, (t[2] + d[2]) % Half>>

\* a >= b on clock values, without regard to the wraparound.
ClockGeq(a, b) == a[1] > b[1] \/ (a[1] = b[1] /\ a[2] >= b[2])

\* The timer written as currentTime >= lastPollTime + POLL_INTERVAL_MS.
PollDueByDeadline(cur, last) ==
    ClockGeq(cur, ClockAfter(last, <<0, POLL_INTERVAL_MS>>))

PollDue(cur, last) == AtLeast(Elapsed(cur, last), POLL_INTERVAL_MS)

CheckDue(cur, last) == AtLeast(Elapsed(cur, last), CHECK_INTERVAL_MS)

\* ------------------------------------------------------------ connectToWiFi

\* WiFi.begin(...); int attempts = 0;
ConnectBegin ==
    /\ mainPc = "cw_begin"
    /\ attempts' = 0
    /\ statusPolls' = 0
    /\ mainPc' = "cw_wait"
    /\ UNCHANGED <<wifiStatus, leds, ledMutex, tally, numEndpoints, timers,
                   cwRet, peRet, blinkI, spawnI, task, linkLog, cycleLog>>

\* A wait loop that allows one attempt more: attempts <= MAX_ATTEMPTS.
ConnectWaitOneMore ==
    /\ mainPc = "cw_wait"
    /\ IF ~Connected /\ attempts <= MAX_ATTEMPTS
       THEN /\ attempts' = attempts + 1
            /\ mainPc' = mainPc
       ELSE /\ attempts' = 0
            /\ mainPc' = "cw_status"
    /\ statusPolls' = statusPolls + 1
    /\ UNCHANGED <<wifiStatus, leds, ledMutex, tally, numEndpoints, timers,
                   cwRet, peRet, blinkI, spawnI, task, linkLog, cycleLog>>

\* while (WiFi.status() != WL_CONNECTED && attempts < MAX_ATTEMPTS)
\*     { delay(500); attempts++; }
ConnectWait ==
    /\ mainPc = "cw_wait"
    /\ IF ~Connected /\ attempts < MAX_ATTEMPTS
       THEN /\ attempts' = attempts + 1
            /\ mainPc' = mainPc
       ELSE /\ attempts' = 0
            /\ mainPc' = "cw_status"
    /\ statusPolls' = statusPolls + 1
    /\ UNCHANGED <<wifiStatus, leds, ledMutex, tally, numEndpoints, timers,
                   cwRet, peRet, blinkI, spawnI, task, linkLog, cycleLog>>

\* if (WiFi.status() == WL_CONNECTED) ... else ...
ConnectStatus ==
    /\ mainPc = "cw_status"
    /\ mainPc' = IF Connected THEN "cw_red_low" ELSE "cw_red_high"
    /\ statusPolls' = statusPolls + 1
    /\ UNCHANGED <<wifiStatus, leds, ledMutex, tally, numEndpoints, timers,
                   cwRet, peRet, attempts, blinkI, spawnI, task, linkLog,
                   cycleLog>>

ConnectReturn == IF cwRet = "setup" THEN "setup_poll" ELSE "lp_time"

\* digitalWrite(RED_LED_PIN, LOW); blinkBlueLED(3, 200);
ConnectRedLow ==
    /\ mainPc = "cw_red_low"
    /\ RED_LED' = "LOW"
    /\ blinkI' = 0
    /\ mainPc' = IF 0 < BLINK_TIMES THEN "bl_high" ELSE ConnectReturn
    /\ statusPolls' = IF 0 < BLINK_TIMES THEN statusPolls ELSE 0
    /\ UNCHANGED <<wifiStatus, BLUE_LED, ledMutex, tally, numEndpoints, timers,
                   cwRet, peRet, attempts, spawnI, task, linkLog, cycleLog>>

\* digitalWrite(RED_LED_PIN, HIGH);
ConnectRedHigh ==
    /\ mainPc = "cw_red_high"
    /\ RED_LED' = "HIGH"
    /\ mainPc' = ConnectReturn
    /\ statusPolls' = 0
    /\ UNCHANGED <<wifiStatus, BLUE_LED, ledMutex, tally, numEndpoints, timers,
                   cwRet, peRet, attempts, blinkI, spawnI, task, linkLog,
                   cycleLog>>

\* blinkBlueLED: digitalWrite(BLUE_LED_PIN, HIGH); delay(delayMs);
BlinkHigh ==
    /\ mainPc = "bl_high"
    /\ BLUE_LED' = "HIGH"
    /\ mainPc' = "bl_low"
    /\ UNCHANGED <<wifiStatus, RED_LED, ledMutex, tally, numEndpoints, timers,
                   locals, task, linkLog, cycleLog>>

\* blinkBlueLED: digitalWrite(BLUE_LED_PIN, LOW); delay(delayMs); i++
BlinkLow ==
    /\ mainPc = "bl_low"
    /\ BLUE_LED' = "LOW"
    /\ IF blinkI + 1 < BLINK_TIMES
       THEN /\ blinkI' = blinkI + 1
            /\ statusPolls' = statusPolls
            /\ mainPc' = "bl_high"
       ELSE /\ blinkI' = 0
            /\ statusPolls' = 0
            /\ mainPc' = ConnectReturn
    /\ UNCHANGED <<wifiStatus, RED_LED, ledMutex, tally, numEndpoints, timers,
                   cwRet, peRet, attempts, spawnI, task, linkLog, cycleLog>>

\* ------------------------------------------------------------ setup / loop

\* setup(): if (WiFi.status() == WL_CONNECTED) { pollEndpoints(); ... }
SetupPoll ==
    /\ mainPc = "setup_poll"
    /\ mainPc' = IF Connected THEN "pe_gate" ELSE "ck_time"
    /\ peRet' = "setup"
    /\ UNCHANGED <<wifiStatus, leds, ledMutex, tally, numEndpoints, timers,
                   cwRet, attempts, statusPolls, blinkI, spawnI, task, linkLog, cycleLog>>

\* setup(): lastPollTime = millis();
SetupTime ==
    /\ mainPc = "setup_time"
    /\ \E cur \in Millis : lastPollTime' = cur
    /\ mainPc' = "ck_time"
    /\ UNCHANGED <<wifiStatus, leds, ledMutex, tally, numEndpoints,
                   lastCheckTime, locals, task, linkLog, cycleLog>>

\* loop(): currentTime = millis(); if (currentTime - lastPollTime >=
\* POLL_INTERVAL_MS) { lastPollTime = currentTime; pollEndpoints(); }
LoopTimeAt(cur) ==
    /\ mainPc = "lp_time"
    /\ IF PollDue(cur, lastPollTime)
       THEN /\ lastPollTime' = cur
            /\ mainPc' = "pe_gate"
       ELSE /\ lastPollTime' = lastPollTime
            /\ mainPc' = "lp_delay"
    /\ peRet' = "loop"
    /\ UNCHANGED <<wifiStatus, leds, ledMutex, tally, numEndpoints,
                   lastCheckTime, cwRet, attempts, statusPolls, blinkI, spawnI, task,
                   linkLog, cycleLog>>

LoopTime == \E cur \in Millis : LoopTimeAt(cur)

\* loop(): delay(100); and loop() is entered again.
LoopDelay ==
    /\ mainPc = "lp_delay"
    /\ mainPc' = "ck_time"
    /\ UNCHANGED <<wifiStatus, leds, ledMutex, tally, numEndpoints, timers,
                   locals, task, linkLog, cycleLog>>

\* ------------------------------------------------------------ checkWiFiConnection

\* The link state an executed check reads.
Observed == IF Connected THEN "C" ELSE "D"

\* The edge an executed check logs: "lost", "reconnected" or "none".
EdgeLogged(connected, was) ==
    IF ~connected
    THEN (IF was THEN "lost" ELSE "none")
    ELSE (IF ~was THEN "reconnected" ELSE "none")

\* A check that never clears wasConnected once the link was seen up.
WasConnectedSticky(connected, was) == was \/ connected

\* wasConnected after an executed check.
WasConnectedAfter(connected, was) == connected

\* hist: the link states successive executed checks observed, repeats
\* dropped, cut to the latest window that starts with a check observing
\* Connected: <<>>, <<"D">>, <<"C">>, <<"C","D">> or <<"C","D","C">>.
HistAfter(h, obs) ==
    IF h # <<>> /\ h[Len(h)] = obs THEN h
    ELSE IF h = <<>> \/ h = <<"D">> THEN <<obs>>
    ELSE IF h = <<"C", "D", "C">> THEN <<"C", "D">>
    ELSE Append(h, obs)

\* A check that opens a new window: the edges counted are those logged by
\* the checks after the window's first one.
OpensWindow(h, obs) == (h = <<>> \/ h = <<"D">>) /\ obs = "C"

SlidesWindow(h, obs) == h = <<"C", "D", "C">> /\ obs = "D"

\* The history counters stop counting at CountCap.
CountCap == 2

Bump(c) == IF c < CountCap THEN c + 1 ELSE c

\* currentTime = millis(); if (currentTime - lastCheckTime >= 1000)
\*     { lastCheckTime = currentTime; ... }
CheckTimeAt(cur) ==
    /\ mainPc = "ck_time"
    /\ IF CheckDue(cur, lastCheckTime)
       THEN /\ lastCheckTime' = cur
            /\ mainPc' = "ck_status"
       ELSE /\ lastCheckTime' = lastCheckTime
            /\ mainPc' = "lp_time"
    /\ UNCHANGED <<wifiStatus, leds, ledMutex, tally, numEndpoints,
                   lastPollTime, locals, task, linkLog, cycleLog>>

CheckTime == \E cur \in Millis : CheckTimeAt(cur)

\* if (WiFi.status() != WL_CONNECTED) { if (wasConnected) {log; wasConnected
\* = false; ...} connectToWiFi(); } else { if (!wasConnected) {wasConnected
\* = true; log; ...} }
CheckStatus ==
    /\ mainPc = "ck_status"
    /\ LET edge == EdgeLogged(Connected, wasConnected)
           base == IF OpensWindow(hist, Observed) \/ SlidesWindow(hist, Observed)
                   THEN <<0, 0>> ELSE <<lostEdges, reconEdges>>
           own  == ~OpensWindow(hist, Observed)
       IN /\ wasConnected' = WasConnectedAfter(Connected, wasConnected)
          /\ hist' = HistAfter(hist, Observed)
          /\ lostEdges' = IF own /\ edge = "lost" THEN Bump(base[1]) ELSE base[1]
          /\ reconEdges' = IF own /\ edge = "reconnected" THEN Bump(base[2]) ELSE base[2]
          /\ mainPc' = CASE edge = "lost" -> "ck_red_high"
                         [] edge = "reconnected" -> "ck_red_low"
                         [] edge = "none" /\ ~Connected -> "cw_begin"
                         [] OTHER -> "lp_time"
    /\ cwRet' = "check"
    /\ UNCHANGED <<wifiStatus, leds, ledMutex, tally, numEndpoints, timers,
                   peRet, attempts, statusPolls, blinkI, spawnI, task, cycleLog>>

\* digitalWrite(RED_LED_PIN, HIGH); connectToWiFi();
CheckRedHigh ==
    /\ mainPc = "ck_red_high"
    /\ RED_LED' = "HIGH"
    /\ mainPc' = "cw_begin"
    /\ UNCHANGED <<wifiStatus, BLUE_LED, ledMutex, tally, numEndpoints, timers,
                   locals, task, linkLog, cycleLog>>

\* digitalWrite(RED_LED_PIN, LOW);
CheckRedLow ==
    /\ mainPc = "ck_red_low"
    /\ RED_LED' = "LOW"
    /\ mainPc' = "lp_time"
    /\ UNCHANGED <<wifiStatus, BLUE_LED, ledMutex, tally, numEndpoints, timers,
                   locals, task, linkLog, cycleLog>>

\* ------------------------------------------------------------ pollEndpoints

\* A gate that tests the link the wrong way round.
GateInverted(connected) == ~connected

\* if (WiFi.status() != WL_CONNECTED) { ...; return; }
GatePasses(connected) == connected

PollGate ==
    /\ mainPc = "pe_gate"
    /\ IF GatePasses(Connected)
       THEN /\ mainPc' = "pe_reset"
            /\ linkStayedUp' = TRUE
       ELSE /\ mainPc' = "pe_g_take"
            /\ linkStayedUp' = linkStayedUp
    /\ UNCHANGED <<wifiStatus, leds, ledMutex, tally, numEndpoints, timers,
                   locals, task, linkLog, lastCycle, reported>>

\* xSemaphoreTake(ledMutex, portMAX_DELAY)
GateTake ==
    /\ mainPc = "pe_g_take"
    /\ ledMutex = NoTask
    /\ ledMutex' = LoopTask
    /\ mainPc' = "pe_g_write"
    /\ UNCHANGED <<wifiStatus, leds, tally, numEndpoints, timers, locals, task,
                   linkLog, cycleLog>>

\* digitalWrite(RED_LED_PIN, HIGH);
GateWrite ==
    /\ mainPc = "pe_g_write"
    /\ RED_LED' = "HIGH"
    /\ mainPc' = "pe_g_give"
    /\ UNCHANGED <<wifiStatus, BLUE_LED, ledMutex, tally, numEndpoints, timers,
                   locals, task, linkLog, cycleLog>>

PollReturn == IF peRet = "setup" THEN "setup_time" ELSE "lp_delay"

\* xSemaphoreGive(ledMutex); return;
GateGive ==
    /\ mainPc = "pe_g_give"
    /\ ledMutex' = NoTask
    /\ mainPc' = IF peRet = "setup" THEN "setup_time" ELSE "lp_delay"
    /\ UNCHANGED <<wifiStatus, leds, tally, numEndpoints, timers, locals, task,
                   linkLog, cycleLog>>

\* activeRequests = NUM_ENDPOINTS; failedRequests = 0;
\* The workers of the cycle before are forgotten (their history is reset).
\* A reset that also clears the error indicator at the start of a cycle.
PollResetClearsRed ==
    /\ mainPc = "pe_reset"
    /\ activeRequests' = numEndpoints
    /\ failedRequests' = 0
    /\ spawnI' = 0
    /\ RED_LED' = "LOW"
    /\ task' = [s \in Slots |->
                  IF task[s].pc \in {"off", "done"} THEN NoWorker
                  ELSE [task[s] EXCEPT !.spawns = 0, !.gets = 0, !.incs = 0, !.decs = 0]]
    /\ mainPc' = "pe_spawn"
    /\ UNCHANGED <<wifiStatus, BLUE_LED, ledMutex, numEndpoints, timers, cwRet,
                   peRet, attempts, statusPolls, blinkI, linkLog, cycleLog>>

PollReset ==
    /\ mainPc = "pe_reset"
    /\ activeRequests' = numEndpoints
    /\ failedRequests' = 0
    /\ spawnI' = 0
    /\ task' = [s \in Slots |->
                  IF task[s].pc \in {"off", "done"} THEN NoWorker
                  ELSE [task[s] EXCEPT !.spawns = 0, !.gets = 0, !.incs = 0, !.decs = 0]]
    /\ mainPc' = "pe_spawn"
    /\ UNCHANGED <<wifiStatus, leds, ledMutex, numEndpoints, timers, cwRet,
                   peRet, attempts, statusPolls, blinkI, linkLog, cycleLog>>

\* for (i = 0; i < NUM_ENDPOINTS; i++) { params->index = i + 1;
\*     xTaskCreate(sendGetRequestTask, ..., params, ...); }
\* created: whether xTaskCreate returned pdPASS (the code does not look).
\* A spawn loop that runs once more: i <= NUM_ENDPOINTS.
PollSpawnOneMore(created) ==
    /\ mainPc = "pe_spawn"
    /\ IF spawnI <= numEndpoints
       THEN /\ spawnI' = spawnI + 1
            /\ mainPc' = mainPc
            /\ task' = IF created
                       THEN [task EXCEPT ![spawnI + 1] =
                              [NoWorker EXCEPT !.pc = "begin",
                                               !.index = spawnI + 1,
                                               !.spawns = Bump(task[spawnI + 1].spawns)]]
                       ELSE task
       ELSE /\ spawnI' = 0
            /\ mainPc' = "pe_wait"
            /\ task' = task
    /\ UNCHANGED <<wifiStatus, leds, ledMutex, tally, numEndpoints, timers,
                   cwRet, peRet, attempts, statusPolls, blinkI, linkLog, cycleLog>>

PollSpawn(created) ==
    /\ mainPc = "pe_spawn"
    /\ IF spawnI < numEndpoints
       THEN /\ spawnI' = spawnI + 1
            /\ mainPc' = mainPc
            /\ task' = IF created
                       THEN [task EXCEPT ![spawnI + 1] =
                              [NoWorker EXCEPT !.pc = "begin",
                                               !.index = spawnI + 1,
                                               !.spawns = Bump(task[spawnI + 1].spawns)]]
                       ELSE task
       ELSE /\ spawnI' = 0
            /\ mainPc' = "pe_wait"
            /\ task' = task
    /\ UNCHANGED <<wifiStatus, leds, ledMutex, tally, numEndpoints, timers,
                   cwRet, peRet, attempts, statusPolls, blinkI, linkLog, cycleLog>>

\* Whether any worker of the cycle ended other than in Success.
AnyFailed == \E s \in 1..numEndpoints : task[s].outcome # "Success"

NotSuccess == Cardinality({s \in 1..numEndpoints : task[s].outcome # "Success"})

\* while (activeRequests > 0) { delay(50); }
\* A wait loop that stops one worker early: while (activeRequests > 1).
PollWaitOneEarly ==
    /\ mainPc = "pe_wait"
    /\ mainPc' = IF activeRequests > 1 THEN mainPc ELSE "pe_summary"
    /\ UNCHANGED <<wifiStatus, leds, ledMutex, tally, numEndpoints, timers,
                   locals, task, linkLog, cycleLog>>

PollWait ==
    /\ mainPc = "pe_wait"
    /\ mainPc' = IF activeRequests > 0 THEN mainPc ELSE "pe_summary"
    /\ UNCHANGED <<wifiStatus, leds, ledMutex, tally, numEndpoints, timers,
                   locals, task, linkLog, cycleLog>>

\* if (failedRequests > 0) { print(failedRequests); ... } else { ... }
PollSummary ==
    /\ mainPc = "pe_summary"
    /\ reported' = failedRequests
    /\ lastCycle' = IF AnyFailed THEN "failed" ELSE "ok"
    /\ mainPc' = "pe_return"
    /\ UNCHANGED <<wifiStatus, leds, ledMutex, tally, numEndpoints, timers,
                   locals, task, linkLog, linkStayedUp>>

\* pollEndpoints returns to setup() or to loop().
PollEnd ==
    /\ mainPc = "pe_return"
    /\ reported' = -1
    /\ linkStayedUp' = TRUE
    /\ mainPc' = PollReturn
    /\ UNCHANGED <<wifiStatus, leds, ledMutex, tally, numEndpoints, timers,
                   locals, task, linkLog, lastCycle>>

\* ------------------------------------------------------------ workers

\* The classification of http.GET()'s result.
Classify(code) ==
    IF code > 0
    THEN (IF code = HTTP_CODE_OK THEN "Success" ELSE "HttpError")
    ELSE "TransportError"

\* if (!http.begin(*wifiClient, url)) { ... }
HttpBegin(s) ==
    /\ task[s].pc = "begin"
    /\ \E ok \in BOOLEAN :
         task' = [task EXCEPT ![s] =
                    IF ok THEN [@ EXCEPT !.pc = "get"]
                    ELSE [@ EXCEPT !.pc = "f_take", !.outcome = "InitError"]]
    /\ UNCHANGED <<wifiStatus, leds, ledMutex, tally, numEndpoints, timers,
                   mainPc, locals, linkLog, cycleLog>>

\* A worker that retries a request that failed in transport.
AfterGetRetry(w, code) ==
    [w EXCEPT !.gets = Bump(w.gets),
              !.outcome = Classify(code),
              !.pc = IF Classify(code) = "Success" THEN "s_take"
                     ELSE IF Classify(code) = "TransportError" /\ w.gets = 0 THEN "get"
                     ELSE "f_take"]

\* int httpCode = http.GET(); and the branch on it.
AfterGet(w, code) ==
    [w EXCEPT !.gets = Bump(w.gets),
              !.outcome = Classify(code),
              !.pc = IF Classify(code) = "Success" THEN "s_take" ELSE "f_take"]

HttpGet(s) ==
    /\ task[s].pc = "get"
    /\ \E code \in HttpResults :
         task' = [task EXCEPT ![s] = AfterGet(@, code)]
    /\ UNCHANGED <<wifiStatus, leds, ledMutex, tally, numEndpoints, timers,
                   mainPc, locals, linkLog, cycleLog>>

\* Success: xSemaphoreTake(ledMutex, portMAX_DELAY)
SuccessTake(s) ==
    /\ task[s].pc = "s_take"
    /\ ledMutex = NoTask
    /\ ledMutex' = TaskName(s)
    /\ task' = [task EXCEPT ![s].pc = "s_test"]
    /\ UNCHANGED <<wifiStatus, leds, tally, numEndpoints, timers, mainPc,
                   locals, linkLog, cycleLog>>

\* A success path that gives the mutex back inside the if only.
SuccessTestKeepsMutex(s) ==
    /\ task[s].pc = "s_test"
    /\ task' = [task EXCEPT ![s].pc = IF failedRequests = 0 THEN "s_write" ELSE "d_read"]
    /\ UNCHANGED <<wifiStatus, leds, ledMutex, tally, numEndpoints, timers,
                   mainPc, locals, linkLog, cycleLog>>

\* Success: if (failedRequests == 0)
SuccessTest(s) ==
    /\ task[s].pc = "s_test"
    /\ task' = [task EXCEPT ![s].pc = IF failedRequests = 0 THEN "s_write" ELSE "s_give"]
    /\ UNCHANGED <<wifiStatus, leds, ledMutex, tally, numEndpoints, timers,
                   mainPc, locals, linkLog, cycleLog>>

\* Success: digitalWrite(RED_LED_PIN, LOW);
SuccessWrite(s) ==
    /\ task[s].pc = "s_write"
    /\ RED_LED' = "LOW"
    /\ task' = [task EXCEPT ![s].pc = "s_give"]
    /\ UNCHANGED <<wifiStatus, BLUE_LED, ledMutex, tally, numEndpoints, timers,
                   mainPc, locals, linkLog, cycleLog>>

\* Success: xSemaphoreGive(ledMutex); then http.end() and return.
SuccessGive(s) ==
    /\ task[s].pc = "s_give"
    /\ ledMutex' = NoTask
    /\ task' = [task EXCEPT ![s].pc = "d_read"]
    /\ UNCHANGED <<wifiStatus, leds, tally, numEndpoints, timers, mainPc,
                   locals, linkLog, cycleLog>>

\* The three failure sites (http.begin failed, status other than 200,
\* httpCode <= 0) run the same statements.
\* Failure: xSemaphoreTake(ledMutex, portMAX_DELAY)
FailTake(s) ==
    /\ task[s].pc = "f_take"
    /\ ledMutex = NoTask
    /\ ledMutex' = TaskName(s)
    /\ task' = [task EXCEPT ![s].pc = "f_write"]
    /\ UNCHANGED <<wifiStatus, leds, tally, numEndpoints, timers, mainPc,
                   locals, linkLog, cycleLog>>

\* Failure: digitalWrite(RED_LED_PIN, HIGH);
FailWrite(s) ==
    /\ task[s].pc = "f_write"
    /\ RED_LED' = "HIGH"
    /\ task' = [task EXCEPT ![s].pc = "f_give"]
    /\ UNCHANGED <<wifiStatus, BLUE_LED, ledMutex, tally, numEndpoints, timers,
                   mainPc, locals, linkLog, cycleLog>>

\* Failure: xSemaphoreGive(ledMutex);
FailGive(s) ==
    /\ task[s].pc = "f_give"
    /\ ledMutex' = NoTask
    /\ task' = [task EXCEPT ![s].pc = "f_read"]
    /\ UNCHANGED <<wifiStatus, leds, tally, numEndpoints, timers, mainPc,
                   locals, linkLog, cycleLog>>

\* Failure: failedRequests++ reads failedRequests ...
FailRead(s) ==
    /\ task[s].pc = "f_read"
    /\ task' = [task EXCEPT ![s].pc = "f_store", ![s].tmp = failedRequests]
    /\ UNCHANGED <<wifiStatus, leds, ledMutex, tally, numEndpoints, timers,
                   mainPc, locals, linkLog, cycleLog>>

\* ... and writes it back, one more; then http.end() and return.
FailStore(s) ==
    /\ task[s].pc = "f_store"
    /\ failedRequests' = task[s].tmp + 1
    /\ task' = [task EXCEPT ![s].pc = "d_read", ![s].tmp = 0,
                            ![s].incs = Bump(@)]
    /\ UNCHANGED <<wifiStatus, leds, ledMutex, activeRequests, numEndpoints,
                   timers, mainPc, locals, linkLog, cycleLog>>

\* sendGetRequestTask: activeRequests-- reads activeRequests ...
DecRead(s) ==
    /\ task[s].pc = "d_read"
    /\ task' = [task EXCEPT ![s].pc = "d_store", ![s].tmp = activeRequests]
    /\ UNCHANGED <<wifiStatus, leds, ledMutex, tally, numEndpoints, timers,
                   mainPc, locals, linkLog, cycleLog>>

\* ... and writes it back, one less; vTaskDelete(NULL);
DecStore(s) ==
    /\ task[s].pc = "d_store"
    /\ activeRequests' = task[s].tmp - 1
    /\ task' = [task EXCEPT ![s].pc = "done", ![s].tmp = 0,
                            ![s].decs = Bump(@)]
    /\ UNCHANGED <<wifiStatus, leds, ledMutex, failedRequests, numEndpoints,
                   timers, mainPc, locals, linkLog, cycleLog>>

Worker(s) ==
    \/ HttpBegin(s)
    \/ HttpGet(s)
    \/ SuccessTake(s)
    \/ SuccessTest(s)
    \/ SuccessWrite(s)
    \/ SuccessGive(s)
    \/ FailTake(s)
    \/ FailWrite(s)
    \/ FailGive(s)
    \/ FailRead(s)
    \/ FailStore(s)
    \/ DecRead(s)
    \/ DecStore(s)

\* The main task's steps other than the creation of a worker.
MainSteps ==
    \/ ConnectBegin
    \/ ConnectWait
    \/ ConnectStatus
    \/ ConnectRedLow
    \/ ConnectRedHigh
    \/ BlinkHigh
    \/ BlinkLow
    \/ SetupPoll
    \/ SetupTime
    \/ CheckTime
    \/ CheckStatus
    \/ CheckRedHigh
    \/ CheckRedLow
    \/ LoopTime
    \/ LoopDelay
    \/ PollGate
    \/ GateTake
    \/ GateWrite
    \/ GateGive
    \/ PollReset
    \/ PollWait
    \/ PollSummary
    \/ PollEnd

\* xTaskCreate succeeds: the heap of the sketch holds NUM_ENDPOINTS tasks.
Main == MainSteps \/ PollSpawn(TRUE)

Next ==
    \/ LinkChange
    \/ Main
    \/ \E s \in Slots : Worker(s)

Spec == Init /\ [][Next]_vars

\* The program on a device whose heap may be too short for a task's 8192
\* byte stack: xTaskCreate returns pdPASS or an error, and pollEndpoints
\* does not look at the result.
NextCreateFails ==
    \/ LinkChange
    \/ MainSteps
    \/ \E created \in BOOLEAN : PollSpawn(created)
    \/ \E s \in Slots : Worker(s)

SpecCreateFails == Init /\ [][NextCreateFails]_vars

\* One pass of loop() over its two timers, late in a run: the timestamps
\* are anywhere in the 32-bit range and the clock is a given time past
\* each of them.  The link is up and has not been seen up by a check yet.
ClockSamples == {<<0, 0>>, <<0, 1>>, <<0, POLL_INTERVAL_MS>>, <<32768, 0>>,
                 <<65535, 0>>, <<65535, 35536>>, <<65535, 65535>>}

ClockDeltas == {<<0, 0>>, <<0, 1>>, <<0, 999>>, <<0, 1000>>, <<0, 1001>>,
                <<0, 29999>>, <<0, 30000>>, <<0, 30001>>, <<0, 65535>>,
                <<1, 0>>, <<32768, 0>>, <<65535, 65535>>}

InitClock ==
    /\ wifiStatus = "WL_CONNECTED"
    /\ RED_LED = "LOW"
    /\ BLUE_LED = "LOW"
    /\ ledMutex = NoTask
    /\ activeRequests = 0
    /\ failedRequests = 0
    /\ numEndpoints \in 1..NUM_ENDPOINTS
    /\ lastPollTime \in ClockSamples
    /\ lastCheckTime \in ClockSamples
    /\ wasConnected = FALSE
    /\ mainPc = "ck_time"
    /\ cwRet = "setup"
    /\ peRet = "setup"
    /\ attempts = 0
    /\ blinkI = 0
    /\ spawnI = 0
    /\ statusPolls = 0
    /\ task = [s \in Slots |-> NoWorker]
    /\ linkStayedUp = TRUE
    /\ lastCycle = "none"
    /\ reported = -1
    /\ hist = <<>>
    /\ lostEdges = 0
    /\ reconEdges = 0

ClockCheckTime == \E d \in ClockDeltas : CheckTimeAt(ClockAfter(lastCheckTime, d))

ClockLoopTime == \E d \in ClockDeltas : LoopTimeAt(ClockAfter(lastPollTime, d))

NextClock ==
    \/ ClockCheckTime
    \/ CheckStatus
    \/ CheckRedLow
    \/ ClockLoopTime

SpecClock == InitClock /\ [][NextClock]_vars

\* setup() alone, for API_ENDPOINTS of up to MaxEndpoints entries: the
\* connect and the first poll cycle, up to the return of pollEndpoints.
SetupSteps ==
    \/ ConnectBegin
    \/ ConnectWait
    \/ ConnectStatus
    \/ ConnectRedLow
    \/ ConnectRedHigh
    \/ BlinkHigh
    \/ BlinkLow
    \/ SetupPoll
    \/ PollGate
    \/ GateTake
    \/ GateWrite
    \/ GateGive
    \/ PollReset
    \/ PollSpawn(TRUE)
    \/ PollWait
    \/ PollSummary
    \/ PollEnd

NextSetup ==
    \/ LinkChange
    \/ SetupSteps
    \/ \E s \in Slots : Worker(s)

SpecSetup == Boot(1..MaxEndpoints) /\ [][NextSetup]_vars

\* The program built with API_ENDPOINTS of any length up to NUM_ENDPOINTS,
\* the empty list included.
SpecEmptyList == Boot(0..NUM_ENDPOINTS) /\ [][Next]_vars

\* ------------------------------------------------------------ properties

Finished(s) == task[s].pc \in {"off", "done"}

Cycle == 1..numEndpoints

LastObserved == IF hist = <<>> THEN "none" ELSE hist[Len(hist)]

\* C1: every poll cycle that passes the link gate completes.  Stated on the
\* states a fair run cannot leave: while pollEndpoints is in its wait loop,
\* either activeRequests is 0 (the loop exits) or a worker of the cycle has
\* a step left.  Once all workers are deleted nothing writes activeRequests
\* again, so a state violating this is a cycle that never completes.
C1_CycleCompletes ==
    mainPc = "pe_wait" =>
        (activeRequests = 0 \/ \E s \in Cycle : ~Finished(s))

\* C2: when pollEndpoints logs the summary, the failedRequests it logs is the
\* number of workers of the cycle whose outcome was not Success.
C2_SummaryCountsFailures ==
    mainPc = "pe_return" => reported = NotSuccess

\* C3: at the end of a completed cycle during which the link stayed up, the
\* error indicator is clear exactly if failedRequests is 0, and it is set if
\* any worker of the cycle failed.
C3_IndicatorMatchesTally ==
    (mainPc = "pe_return" /\ linkStayedUp) =>
        /\ (RED_LED = "LOW") <=> (failedRequests = 0)
        /\ AnyFailed => RED_LED = "HIGH"

C5_TallyUnderMutex ==
    [][/\ (PollReset \/ PollWait \/ PollSummary) => ledMutex = LoopTask
       /\ \A s \in Slots :
            (SuccessTest(s) \/ FailRead(s) \/ FailStore(s) \/ DecRead(s) \/ DecStore(s))
                => ledMutex = TaskName(s)
       /\ \A s, t \in Slots :
            (task[s].pc \in {"f_store", "d_store"} /\ task[t].pc \in {"f_store", "d_store"})
                => s = t
      ]_vars

\* C6: every write to RED_LED or BLUE_LED made once loop() runs - by the
\* workers, pollEndpoints, connectToWiFi, checkWiFiConnection and
\* blinkBlueLED - is made by a task that holds ledMutex.
C6_IndicatorsUnderMutex ==
    [][/\ (GateWrite \/ CheckRedHigh \/ CheckRedLow) => ledMutex = LoopTask
       /\ (cwRet = "check" /\ (ConnectRedLow \/ ConnectRedHigh \/ BlinkHigh \/ BlinkLow))
            => ledMutex = LoopTask
       /\ \A s \in Slots : (SuccessWrite(s) \/ FailWrite(s)) => ledMutex = TaskName(s)
      ]_vars

GatePath == {"pe_g_take", "pe_g_write", "pe_g_give"}

\* C7: when WiFi is not connected as pollEndpoints is entered, it takes the
\* early-return path: no worker is spawned, activeRequests and failedRequests
\* keep their values, the blue LED is untouched, the red LED is HIGH when it
\* returns, and a red LED that is already HIGH stays HIGH (a second call
\* changes nothing).  ledMutex is free when the path asks for it, so the
\* take does not block.
C7_GateSkipTouchesNothing ==
    [][/\ (PollGate /\ ~Connected) => mainPc' = "pe_g_take"
       /\ (mainPc = "pe_gate" /\ ~Connected) \/ mainPc \in GatePath =>
            /\ tally' = tally
            /\ task' = task
            /\ BLUE_LED' = BLUE_LED
            /\ RED_LED' = RED_LED \/ RED_LED' = "HIGH"
            /\ mainPc' \in GatePath \union {mainPc, PollReturn}
       /\ GateGive => RED_LED = "HIGH" /\ RED_LED' = "HIGH"
       /\ mainPc = "pe_g_take" => ledMutex = NoTask
      ]_vars

\* pollEndpoints returns from the gate in loop(), after a cycle that
\* completed, with the tally of that cycle still in place.
C7_Witness ==
    /\ mainPc = "pe_g_give"
    /\ peRet = "loop"
    /\ lastCycle = "failed"
    /\ failedRequests > 0
    /\ \A s \in Cycle : task[s].pc = "done"
    /\ RED_LED = "HIGH"

C9_ErrorPersists ==
    [][(lastCycle = "failed" /\ RED_LED = "HIGH") => RED_LED' = "HIGH"]_vars

\* C10: at the top of loop(), when the link is up, the latest executed check
\* observed it up, and no cycle has completed yet or the latest completed
\* cycle had every endpoint succeed, the error indicator is clear.
C10_HealthyMeansClear ==
    (/\ mainPc = "ck_time"
     /\ Connected
     /\ LastObserved = "C"
     /\ lastCycle \in {"none", "ok"})
        => RED_LED = "LOW"

\* Some task of the program has a step that changes the state.
ProgramCanStep == ENABLED <<Main \/ \E s \in Slots : Worker(s)>>_vars

\* C11 (self-healing): once the link stays Connected and every request
\* returns 200, the main loop keeps running cycles and checks and the error
\* indicator ends up clear for good.  Its finite form: while the link is up
\* and RED is set, the program is never without a step to take, since from
\* a state where it has none RED stays set whatever the environment does.
C11_SelfHealing == (Connected /\ RED_LED = "HIGH") => ProgramCanStep

\* A step inside checkWiFiConnection.
CheckSteps == CheckTime \/ CheckStatus \/ CheckRedHigh \/ CheckRedLow

\* C12 (checks not starved): checkWiFiConnection continues to be invoked
\* while pollEndpoints waits for its workers.  Its finite form: in every
\* state in which pollEndpoints is in its wait loop, a step of
\* checkWiFiConnection can be taken.
C12_ChecksNotStarved == mainPc = "pe_wait" => ENABLED CheckSteps

\* Positions of the main task inside connectToWiFi before its branch, and
\* inside connectToWiFi and blinkBlueLED altogether.
ConnectEntryPcs == {"cw_begin", "cw_wait", "cw_status"}

ConnectPcs == ConnectEntryPcs \cup {"cw_red_low", "cw_red_high", "bl_high", "bl_low"}

\* A measure of the work connectToWiFi has left: every step of the call
\* lowers it.
ConnectRank ==
    CASE mainPc = "cw_begin" -> 2 * BLINK_TIMES + MAX_ATTEMPTS + 5
      [] mainPc = "cw_wait" -> 2 * BLINK_TIMES + MAX_ATTEMPTS + 4 - attempts
      [] mainPc = "cw_status" -> 2 * BLINK_TIMES + 3
      [] mainPc \in {"cw_red_low", "cw_red_high"} -> 2 * BLINK_TIMES + 2
      [] mainPc = "bl_high" -> 2 * (BLINK_TIMES - blinkI) + 1
      [] mainPc = "bl_low" -> 2 * (BLINK_TIMES - blinkI)
      [] OTHER -> 0

\* The step with which connectToWiFi returns on its success path, on its
\* failure path.
ConnectReturnsUp == BlinkLow /\ mainPc' # "bl_high"

ConnectReturnsDown == ConnectRedHigh

\* The main task has a step that changes the state, takes such a step.
MainCanStep == ENABLED <<MainSteps>>_vars

MainMoves == <<MainSteps>>_vars

\* Inside connectToWiFi the main task is never blocked.
ConnectNeverBlocks == mainPc \in ConnectPcs => MainCanStep

\* What a step of the program satisfies, for a budget of maxPolls calls of
\* WiFi.status() per call of connectToWiFi.
ConnectContract(maxPolls) ==
    \* each step of the call lowers the rank: with ConnectNeverBlocks, the
    \* call returns
    /\ (mainPc \in ConnectPcs /\ MainMoves) => ConnectRank' < ConnectRank
    /\ attempts <= MAX_ATTEMPTS
    /\ (ConnectReturnsUp \/ ConnectReturnsDown) => statusPolls <= maxPolls
    \* the branch follows the status read after the loop
    /\ ConnectStatus => (mainPc' = "cw_red_low") = Connected
    \* success: RED cleared, BLUE on/off BLINK_TIMES times, left off
    /\ ConnectRedLow => RED_LED' = "LOW" /\ blinkI' = 0 /\ mainPc' = "bl_high"
    /\ BlinkHigh => BLUE_LED = "LOW" /\ BLUE_LED' = "HIGH" /\ RED_LED = "LOW"
    /\ BlinkLow => BLUE_LED = "HIGH" /\ BLUE_LED' = "LOW" /\ RED_LED = "LOW"
    /\ ConnectReturnsUp => blinkI + 1 = BLINK_TIMES /\ RED_LED' = "LOW"
    \* failure: RED set, BLUE untouched since the call began
    /\ mainPc \in ConnectEntryPcs \cup {"cw_red_high"} =>
           BLUE_LED = "LOW" /\ (MainMoves => BLUE_LED' = "LOW")
    /\ ConnectReturnsDown => RED_LED' = "HIGH"

\* C13 as stated: connectToWiFi returns after at most 30 status polls, with
\* RED cleared and BLUE toggled three times and left off when the status
\* read after the wait loop is Connected, with RED set and BLUE untouched
\* otherwise.
C13_ThirtyPolls ==
    []ConnectNeverBlocks /\ [][ConnectContract(MAX_ATTEMPTS)]_vars

\* C13 (amended): connectToWiFi returns after at most 30 waits, that is at
\* most 31 status polls in the wait loop and one more after it; the
\* indicators on return are as stated.
C13_ConnectReturns ==
    []ConnectNeverBlocks /\ [][ConnectContract(MAX_ATTEMPTS + 2)]_vars

\* connectToWiFi is about to return on its failure path having used the
\* whole budget.
C13_Witness == mainPc = "cw_red_high" /\ statusPolls = MAX_ATTEMPTS + 2

\* Positions of the main task in a poll cycle, from the reset to the
\* summary, and in pollEndpoints past its gate.
CyclePcs == {"pe_reset", "pe_spawn", "pe_wait", "pe_summary"}

PollPcs == CyclePcs \cup {"pe_return"}

\* C14 (zero endpoints): with an empty endpoint list and the link Connected
\* at the gate, pollEndpoints creates no worker, finds activeRequests at 0
\* the first time it tests it, reports success, and no step taken while it
\* runs changes the level of RED or BLUE.
C14_EmptyListCycle ==
    [][numEndpoints = 0 =>
        /\ \A s \in Slots : task[s] = NoWorker /\ task'[s] = NoWorker
        /\ PollReset => activeRequests' = 0
        /\ mainPc \in {"pe_spawn", "pe_wait"} => activeRequests = 0
        /\ PollSpawn(TRUE) => mainPc' = "pe_wait"
        /\ PollWait => mainPc' = "pe_summary"
        /\ PollSummary => reported' = 0 /\ lastCycle' = "ok"
        /\ mainPc \in PollPcs => leds' = leds]_vars

\* A cycle over the empty list has reported success with RED still set.
C14_Witness ==
    /\ numEndpoints = 0
    /\ mainPc = "pe_return"
    /\ reported = 0
    /\ RED_LED = "HIGH"

\* C15 (counters monotone): within a poll cycle, for every number of
\* endpoints and every interleaving, activeRequests starts at the number of
\* endpoints, stays between 0 and it and never increases from one state to
\* the next; failedRequests starts at 0, stays between 0 and the number of
\* endpoints and never decreases.
C15_CountersMonotone ==
    [][/\ PollReset => activeRequests' = numEndpoints /\ failedRequests' = 0
       /\ mainPc \in {"pe_spawn", "pe_wait", "pe_summary"} =>
            /\ activeRequests \in 0..numEndpoints
            /\ failedRequests \in 0..numEndpoints
            /\ activeRequests' <= activeRequests
            /\ failedRequests' >= failedRequests]_vars

\* C16 (completion barrier): when pollEndpoints finds activeRequests at 0
\* after spawning, every worker of the cycle has made all its writes (it
\* has stored its decrement and is gone); failedRequests does not change
\* from then until the next reset, and no worker is pending when a reset
\* executes.
C16_WaitIsBarrier ==
    [][/\ (PollWait /\ mainPc' = "pe_summary") =>
            /\ activeRequests = 0
            /\ \A s \in Cycle : task[s].pc = "done" /\ task[s].decs = 1
            /\ \A s \in Slots : Finished(s)
       /\ (mainPc \notin {"pe_reset", "pe_spawn", "pe_wait"}) =>
            /\ failedRequests' = failedRequests
            /\ \A s \in Slots : Finished(s)
       /\ PollReset => \A s \in Slots : Finished(s)]_vars

\* The wait loop has been left after two failed requests.
C16_Witness ==
    /\ mainPc = "pe_summary"
    /\ numEndpoints = 2
    /\ failedRequests = 2
    /\ \A s \in Cycle : task[s].pc = "done"

\* Positions between a take of ledMutex and its give: of a worker, of the
\* main task.
WorkerSection == {"s_test", "s_write", "s_give", "f_write", "f_give"}

MainSection == {"pe_g_write", "pe_g_give"}

\* Positions at which a task is inside a network call: http.begin or
\* http.GET, connectToWiFi's wait.
WorkerNetwork == {"begin", "get"}

MainNetwork == {"cw_begin", "cw_wait", "cw_status"}

\* Statements a worker has left before its give.
SectionRank(pc) ==
    CASE pc = "s_test" -> 3
      [] pc \in {"s_write", "f_write"} -> 2
      [] pc \in {"s_give", "f_give"} -> 1
      [] OTHER -> 0

\* The holder of ledMutex is exactly the task inside a critical section,
\* it is not inside a network call, and it can run.
MutexHeldInSectionOnly ==
    /\ (ledMutex = LoopTask) = (mainPc \in MainSection)
    /\ ledMutex = LoopTask => mainPc \notin MainNetwork /\ MainCanStep
    /\ \A s \in Slots :
         /\ (ledMutex = TaskName(s)) = (task[s].pc \in WorkerSection)
         /\ ledMutex = TaskName(s) =>
              /\ task[s].pc \notin WorkerNetwork
              /\ ENABLED <<Worker(s)>>_vars
    /\ ledMutex \in {NoTask, LoopTask} \cup {TaskName(s) : s \in Slots}

\* Every step of the holder goes on towards the give or is the give.
SectionEndsInGive ==
    /\ \A s \in Slots :
         (ledMutex = TaskName(s) /\ task'[s] # task[s]) =>
             /\ SectionRank(task'[s].pc) < SectionRank(task[s].pc)
             /\ (task'[s].pc \notin WorkerSection) = (ledMutex' = NoTask)
    /\ (ledMutex = LoopTask /\ mainPc' # mainPc) =>
             IF mainPc = "pe_g_write"
             THEN mainPc' = "pe_g_give" /\ ledMutex' = LoopTask
             ELSE ledMutex' = NoTask

\* C17 (ledMutex): no task holds ledMutex while inside http.begin, http.GET
\* or connectToWiFi's wait; every take is followed by a give in the same
\* critical section on every path; the holder can always run, so no task
\* waits for ledMutex forever.
C17_MutexNeverLeaked == []MutexHeldInSectionOnly /\ [][SectionEndsInGive]_vars

\* A worker waits for ledMutex to report a failure while another holds it
\* on the success path.
C17_Witness ==
    \E s, t \in Slots :
        /\ task[s].pc = "s_test"
        /\ ledMutex = TaskName(s)
        /\ task[t].pc = "f_take"

\* The statements of the main task that write an indicator: in
\* connectToWiFi and blinkBlueLED, in checkWiFiConnection, at the gate of
\* pollEndpoints.
MainLedWrite ==
    \/ ConnectRedLow
    \/ ConnectRedHigh
    \/ BlinkHigh
    \/ BlinkLow
    \/ CheckRedHigh
    \/ CheckRedLow
    \/ GateWrite

\* Worker s, created in the current cycle, writes the error indicator.
WorkerLedWrite(s) == task[s].spawns = 1 /\ (SuccessWrite(s) \/ FailWrite(s))

\* C18 (frame of a cycle): from the reset to the summary the healthy
\* indicator is not written, the main task (pollEndpoints, connectToWiFi,
\* checkWiFiConnection) writes no indicator, and the error indicator changes
\* only by a write of a worker of that cycle.
C18_OnlyWorkersWriteRed ==
    [][(mainPc \in CyclePcs) =>
         /\ BLUE_LED' = BLUE_LED
         /\ ~MainLedWrite
         /\ mainPc' # mainPc => leds' = leds
         /\ RED_LED' # RED_LED => \E s \in Cycle : WorkerLedWrite(s)]_vars

\* A worker has just set the error indicator while pollEndpoints waits.
C18_Witness ==
    /\ mainPc = "pe_wait"
    /\ RED_LED = "HIGH"
    /\ \E s \in Cycle : task[s].pc = "f_give" /\ ledMutex = TaskName(s)

\* C19 (spawn failure not fatal): if xTaskCreate fails for an endpoint,
\* pollEndpoints still leaves its wait loop and returns.  Its finite form:
\* once the spawn loop is over and every worker that was created has
\* finished, a cycle with a failed creation finds activeRequests at 0.
C19_SpawnFailureNotFatal ==
    (/\ mainPc = "pe_wait"
     /\ \E s \in Cycle : task[s].spawns = 0
     /\ \A s \in Slots : Finished(s)) => activeRequests = 0

\* C20 (clock wraparound): for every lastPollTime and every clock value, a
\* poll is started exactly when at least POLL_INTERVAL_MS ms, modulo 2^32,
\* have passed since lastPollTime, which then becomes the clock value; the
\* body of the link check runs exactly when at least 1000 ms have passed
\* since lastCheckTime, likewise.
C20_TimersAcrossWraparound ==
    [][\A d \in ClockDeltas :
         /\ LoopTimeAt(ClockAfter(lastPollTime, d)) =>
              /\ (mainPc' = "pe_gate") = AtLeast(d, POLL_INTERVAL_MS)
              /\ (mainPc' = "lp_delay") = ~AtLeast(d, POLL_INTERVAL_MS)
              /\ lastPollTime' = IF AtLeast(d, POLL_INTERVAL_MS)
                                 THEN ClockAfter(lastPollTime, d)
                                 ELSE lastPollTime
         /\ CheckTimeAt(ClockAfter(lastCheckTime, d)) =>
              /\ (mainPc' = "ck_status") = AtLeast(d, CHECK_INTERVAL_MS)
              /\ (mainPc' = "lp_time") = ~AtLeast(d, CHECK_INTERVAL_MS)
              /\ lastCheckTime' = IF AtLeast(d, CHECK_INTERVAL_MS)
                                  THEN ClockAfter(lastCheckTime, d)
                                  ELSE lastCheckTime]_vars

\* A poll has started POLL_INTERVAL_MS after a lastPollTime of 2^32 - 1:
\* the clock has rolled over in between.
C20_Witness == mainPc = "pe_gate" /\ lastPollTime = <<0, POLL_INTERVAL_MS - 1>>

====
